---- MODULE Spec2Model ----
(***************************************************************************)
(* Model of the evaluation code of the signature-verification notebooks:   *)
(* compute_eer (src/3.ipynb, src/4.ipynb, src/5.ipynb) with the ROC sweep  *)
(* it calls, and the metric calls of the model-evaluation loop.            *)
(*                                                                         *)
(* Scores are integers (only their order and equality are used by the      *)
(* sweep); rates are exact fractions n/d, with NaN and +inf as separate    *)
(* values, so that (fpr + fnr)/2 and |fpr - fnr| are computed, not assumed. *)
(* Floating-point rounding of the rates is not modelled.                   *)
(***************************************************************************)
EXTENDS Integers, Sequences, FiniteSets, TLC

VARIABLES pc, y_true, y_score, y_pred, eer_ret, g_used, eer_ret_g, metrics,
          scaler, X_train_scaled, X_test_scaled, fitted, probs, results, item,
          rf_probs, failure, calls

\* the state of the model-evaluation run: scaler, scaled matrices, the models'
\* fitted state and scores, the results list, the loop position, and the calls
\* made so far on the scaler, the models and the evaluation functions
hvars == <<scaler, X_train_scaled, X_test_scaled, fitted, probs, results, item,
           rf_probs, failure, calls>>

vars == <<pc, y_true, y_score, y_pred, eer_ret, g_used, eer_ret_g, metrics, hvars>>

(* ---------------------------- bounds ----------------------------------- *)
MaxLen == 3
MaxScore == 3

Labels == {0, 1}
Scores == 0..MaxScore

SeqsOfLen(S, n) == [1..n -> S]

(* ------------------------- numeric values ------------------------------ *)
\* a float that is either NaN or the exact fraction n/d (d > 0)
Rat(a, b) == [nan |-> FALSE, n |-> a, d |-> b]
NaN == [nan |-> TRUE, n |-> 0, d |-> 1]
\* a threshold: np.inf or a score value
Inf == [inf |-> TRUE, v |-> 0]
Fin(s) == [inf |-> FALSE, v |-> s]

RSub(x, y) == IF x.nan \/ y.nan THEN NaN ELSE Rat(x.n * y.d - y.n * x.d, x.d * y.d)
RAdd(x, y) == IF x.nan \/ y.nan THEN NaN ELSE Rat(x.n * y.d + y.n * x.d, x.d * y.d)
RAbs(x) == IF x.nan THEN NaN ELSE Rat(IF x.n < 0 THEN -x.n ELSE x.n, x.d)
RHalf(x) == IF x.nan THEN NaN ELSE Rat(x.n, 2 * x.d)
\* comparisons of non-NaN values
RLt(x, y) == x.n * y.d < y.n * x.d
RLe(x, y) == x.n * y.d <= y.n * x.d
REq(x, y) == x.n * y.d = y.n * x.d

(* --------------------- roc_curve (library call) ------------------------ *)
\* np.argsort(y_score, kind="mergesort")[::-1]: indices by descending score,
\* equal scores in descending index order
RECURSIVE DescOrder(_, _)
DescOrder(score, todo) ==
  IF todo = {} THEN <<>>
  ELSE LET i == CHOOSE k \in todo :
                  \A m \in todo : score[k] > score[m] \/ (score[k] = score[m] /\ k >= m)
       IN <<i>> \o DescOrder(score, todo \ {i})

\* mutant: ascending order (the reversal [::-1] forgotten)
RECURSIVE AscOrder(_, _)
AscOrder(score, todo) ==
  IF todo = {} THEN <<>>
  ELSE LET i == CHOOSE k \in todo :
                  \A m \in todo : score[k] < score[m] \/ (score[k] = score[m] /\ k <= m)
       IN <<i>> \o AscOrder(score, todo \ {i})
desc_score_indices_ascending(score) == AscOrder(score, DOMAIN score)

desc_score_indices(score) == DescOrder(score, DOMAIN score)

Permute(s, idx) == [k \in 1..Len(idx) |-> s[idx[k]]]

\* stable_cumsum(y_true)[k]: positives among the first k sorted samples
RECURSIVE CumSum(_, _)
CumSum(s, k) == IF k = 0 THEN 0 ELSE s[k] + CumSum(s, k - 1)

\* ascending sequence of the elements of a finite set of integers
RECURSIVE SortedSeq(_)
SortedSeq(S) ==
  IF S = {} THEN <<>>
  ELSE LET m == CHOOSE x \in S : \A y \in S : x <= y
       IN <<m>> \o SortedSeq(S \ {m})

\* mutant: scores closer than 1 apart taken as equal (a tolerance comparison)
threshold_idxs_tolerant(sorted) ==
  SortedSeq({k \in 1..(Len(sorted) - 1) : sorted[k] - sorted[k + 1] > 1} \cup {Len(sorted)})

\* mutant: every sorted sample is a threshold index, tied scores included
threshold_idxs_every_sample(sorted) == [k \in 1..Len(sorted) |-> k]

\* np.where(np.diff(y_score))[0] followed by y_true.size - 1 (1-based here)
threshold_idxs(sorted) ==
  SortedSeq({k \in 1..(Len(sorted) - 1) : sorted[k] /= sorted[k + 1]} \cup {Len(sorted)})

\* _binary_clf_curve: cumulative false/true positive counts per distinct score
binary_clf_curve(yt, ys) ==
  LET order == desc_score_indices(ys)
      s     == Permute(ys, order)
      t     == Permute(yt, order)
      tix   == threshold_idxs(s)
      tps   == [k \in 1..Len(tix) |-> CumSum(t, tix[k])]
      fps   == [k \in 1..Len(tix) |-> tix[k] - tps[k]]
  IN [fps |-> fps, tps |-> tps, thr |-> [k \in 1..Len(tix) |-> s[tix[k]]]]

\* np.diff(a, 2)[k] /= 0, for the interior position k+1 of a
Diff2(a, k) == (a[k + 2] - a[k + 1]) - (a[k + 1] - a[k])

\* mutant: drop_intermediate=False, every point is kept
optimal_idxs_keep_all(c) == [k \in 1..Len(c.fps) |-> k]

\* mutant: every interior point dropped, corners included
optimal_idxs_ends_only(c) ==
  IF Len(c.fps) > 2 THEN <<1, Len(c.fps)>> ELSE [k \in 1..Len(c.fps) |-> k]

\* drop_intermediate=True: keep the first, the last and every corner
optimal_idxs(c) ==
  IF Len(c.fps) > 2
    THEN SortedSeq({1, Len(c.fps)} \cup
                   {k + 1 : k \in {j \in 1..(Len(c.fps) - 2) :
                                     Diff2(c.fps, j) /= 0 \/ Diff2(c.tps, j) /= 0}})
    ELSE [k \in 1..Len(c.fps) |-> k]

\* mutant: an empty class gives rate 0 instead of NaN
Rate_zero_for_empty_class(count, total) == IF total <= 0 THEN Rat(0, 1) ELSE Rat(count, total)

Rate(count, total) == IF total <= 0 THEN NaN ELSE Rat(count, total)

\* mutant: the curve is returned without the extra point at the origin
roc_curve_without_origin(yt, ys) ==
  LET c    == binary_clf_curve(yt, ys)
      keep == optimal_idxs(c)
      fps  == [k \in 1..Len(keep) |-> c.fps[keep[k]]]
      tps  == [k \in 1..Len(keep) |-> c.tps[keep[k]]]
      thr  == [k \in 1..Len(keep) |-> Fin(c.thr[keep[k]])]
  IN [fpr |-> [k \in 1..Len(fps) |-> Rate(fps[k], fps[Len(fps)])],
      tpr |-> [k \in 1..Len(tps) |-> Rate(tps[k], tps[Len(tps)])],
      thresholds |-> thr]

\* mutant: the first threshold is max(y_score) + 1 instead of np.inf
roc_curve_first_threshold_max_plus_one(yt, ys) ==
  LET c    == binary_clf_curve(yt, ys)
      keep == optimal_idxs(c)
      fps  == <<0>> \o [k \in 1..Len(keep) |-> c.fps[keep[k]]]
      tps  == <<0>> \o [k \in 1..Len(keep) |-> c.tps[keep[k]]]
      thr  == <<Fin(c.thr[1] + 1)>> \o [k \in 1..Len(keep) |-> Fin(c.thr[keep[k]])]
  IN [fpr |-> [k \in 1..Len(fps) |-> Rate(fps[k], fps[Len(fps)])],
      tpr |-> [k \in 1..Len(tps) |-> Rate(tps[k], tps[Len(tps)])],
      thresholds |-> thr]

\* roc_curve(y_true, y_score) -> fpr, tpr, thresholds
roc_curve(yt, ys) ==
  LET c    == binary_clf_curve(yt, ys)
      keep == optimal_idxs(c)
      fps  == <<0>> \o [k \in 1..Len(keep) |-> c.fps[keep[k]]]
      tps  == <<0>> \o [k \in 1..Len(keep) |-> c.tps[keep[k]]]
      thr  == <<Inf>> \o [k \in 1..Len(keep) |-> Fin(c.thr[keep[k]])]
  IN [fpr |-> [k \in 1..Len(fps) |-> Rate(fps[k], fps[Len(fps)])],
      tpr |-> [k \in 1..Len(tps) |-> Rate(tps[k], tps[Len(tps)])],
      thresholds |-> thr]

(* ----------------------------- compute_eer ----------------------------- *)
One == Rat(1, 1)

\* mutant: fnr taken to be tpr (the "1 -" forgotten)
fnr_of_without_complement(tpr) == tpr

\* fnr = 1 - tpr
fnr_of(tpr) == [k \in 1..Len(tpr) |-> RSub(One, tpr[k])]

\* np.abs(fpr - fnr)
abs_diff(fpr, fnr) == [k \in 1..Len(fpr) |-> RAbs(RSub(fpr[k], fnr[k]))]

\* np.nanargmin: scan keeping the first least non-NaN entry; 0 stands for the
\* ValueError ("All-NaN slice encountered") raised on an all-NaN array
RECURSIVE ArgMinScan(_, _, _)
ArgMinScan(a, k, best) ==
  IF k > Len(a) THEN best
  ELSE ArgMinScan(a, k + 1,
                  IF a[k].nan THEN best
                  ELSE IF best = 0 THEN k
                  ELSE IF RLt(a[k], a[best]) THEN k ELSE best)

\* mutant: ties resolved to the last least entry (<= in place of <)
RECURSIVE ArgMinScanLast(_, _, _)
ArgMinScanLast(a, k, best) ==
  IF k > Len(a) THEN best
  ELSE ArgMinScanLast(a, k + 1,
                      IF a[k].nan THEN best
                      ELSE IF best = 0 THEN k
                      ELSE IF RLe(a[k], a[best]) THEN k ELSE best)
nanargmin_last(a) == ArgMinScanLast(a, 1, 0)

nanargmin(a) == ArgMinScan(a, 1, 0)

NoResult == [err |-> "ValueError", eer |-> NaN, threshold |-> Inf]

\* mutant: eer reported as fpr at the selected point (no averaging with fnr)
compute_eer_fpr_only(yt, ys) ==
  LET roc == roc_curve(yt, ys)
      fnr == fnr_of(roc.tpr)
      idx == nanargmin(abs_diff(roc.fpr, fnr))
  IN IF idx = 0 THEN NoResult
     ELSE [err |-> "none", eer |-> roc.fpr[idx], threshold |-> roc.thresholds[idx]]

\* mutant: eer reported as fpr + fnr (the division by 2 forgotten)
compute_eer_sum(yt, ys) ==
  LET roc == roc_curve(yt, ys)
      fnr == fnr_of(roc.tpr)
      idx == nanargmin(abs_diff(roc.fpr, fnr))
  IN IF idx = 0 THEN NoResult
     ELSE [err |-> "none",
           eer |-> RAdd(roc.fpr[idx], fnr[idx]),
           threshold |-> roc.thresholds[idx]]

compute_eer(yt, ys) ==
  LET roc == roc_curve(yt, ys)
      fnr == fnr_of(roc.tpr)
      idx == nanargmin(abs_diff(roc.fpr, fnr))
  IN IF idx = 0 THEN NoResult
     ELSE [err |-> "none",
           eer |-> RHalf(RAdd(roc.fpr[idx], fnr[idx])),
           threshold |-> roc.thresholds[idx]]

(* ------------------------- the metric calls ---------------------------- *)
\* check_consistent_length: every metric call raises ValueError when the two
\* sequences have different numbers of samples
\* mutant: only a y_true longer than y_pred is rejected
consistent_length_one_sided(yt, yp) == Len(yt) <= Len(yp)

consistent_length(yt, yp) == Len(yt) = Len(yp)

CountIf(yt, yp, a, b) == Cardinality({k \in DOMAIN yt : yt[k] = a /\ yp[k] = b})

\* mutant: the share of mismatches (error rate) is returned
accuracy_score_mismatches(yt, yp) ==
  IF Len(yt) = 0 THEN NaN
  ELSE Rat(Cardinality({k \in DOMAIN yt : yt[k] /= yp[k]}), Len(yt))

\* accuracy_score: mean of (y_true == y_pred); the mean of an empty array is NaN
accuracy_score(yt, yp) ==
  IF Len(yt) = 0 THEN NaN
  ELSE Rat(Cardinality({k \in DOMAIN yt : yt[k] = yp[k]}), Len(yt))

\* mutant: a zero denominator gives NaN (zero_division=np.nan)
prf_divide_nan(num, den) == IF den = 0 THEN NaN ELSE Rat(num, den)

\* _prf_divide with zero_division="warn": a zero denominator gives 0.0
prf_divide(num, den) == IF den = 0 THEN Rat(0, 1) ELSE Rat(num, den)

\* precision_score: tp / (tp + fp) for pos_label = 1
precision_score(yt, yp) ==
  prf_divide(CountIf(yt, yp, 1, 1), CountIf(yt, yp, 1, 1) + CountIf(yt, yp, 0, 1))

\* recall_score: tp / (tp + fn)
recall_score(yt, yp) ==
  prf_divide(CountIf(yt, yp, 1, 1), CountIf(yt, yp, 1, 1) + CountIf(yt, yp, 1, 0))

\* mutant: tp / (tp + fp + fn), the Jaccard index, in place of F1
f1_score_jaccard(yt, yp) ==
  prf_divide(CountIf(yt, yp, 1, 1),
             CountIf(yt, yp, 1, 1) + CountIf(yt, yp, 0, 1) + CountIf(yt, yp, 1, 0))

\* f1_score: 2 tp / (2 tp + fp + fn)
f1_score(yt, yp) ==
  prf_divide(2 * CountIf(yt, yp, 1, 1),
             2 * CountIf(yt, yp, 1, 1) + CountIf(yt, yp, 0, 1) + CountIf(yt, yp, 1, 0))

(* ------------------------- score transforms ---------------------------- *)
MaxScale == 2

\* strictly increasing maps of the scores: scale by a >= 1, then open a gap
\* of one below every score >= cut
Transforms == [a : 1..MaxScale, cut : 0..(MaxScore + 1)]
ApplyG(p, s) == p.a * s + (IF s >= p.cut THEN 1 ELSE 0)
MapScores(p, ys) == [k \in 1..Len(ys) |-> ApplyG(p, ys[k])]

(* ------------------------------ state ---------------------------------- *)
NotCalled == [err |-> "not called", eer |-> NaN, threshold |-> Inf]
NoG == [a : {0}, cut : {0}]
NoMetrics == [err |-> "none", vals |-> <<>>]

\* models = {'RandomForest': ..., 'KNN': ...}, in insertion order
Models == <<"RandomForest", "KNN">>
ModelNames == {Models[k] : k \in 1..Len(Models)}

NoData == [of |-> "none", fit_on |-> "none"]
Unfitted == [n_fits |-> 0, X |-> NoData, y |-> "none"]
NoFailure == [step |-> "none", model |-> "none"]

\* the state before the scaling cell: nothing fitted, no scores, results empty
\* a call op(X, y) on the object m; ok is false when the call raised
Call(op, m, X, y, ok) == [op |-> op, model |-> m, X |-> X, y |-> y, ok |-> ok]
Raw(data) == [of |-> data, fit_on |-> "none"]

HarnessIdle ==
  /\ scaler = [n_fits |-> 0, fit_on |-> "none"]
  /\ X_train_scaled = NoData
  /\ X_test_scaled = NoData
  /\ fitted = [m \in ModelNames |-> Unfitted]
  /\ probs = [m \in ModelNames |-> <<>>]
  /\ results = <<>>
  /\ item = 0
  /\ rf_probs = <<>>
  /\ failure = NoFailure
  /\ calls = <<>>

\* the two compute_eer scenarios of the specification, scores in tenths
ScenarioInputs ==
  { [t |-> <<1, 1, 0, 0>>, s |-> <<9, 8, 3, 1>>],
    [t |-> <<1, 0, 1, 0>>, s |-> <<6, 6, 4, 4>>] }

EerInputs ==
  ScenarioInputs \cup
  UNION { [t : SeqsOfLen(Labels, n), s : SeqsOfLen(Scores, n)] : n \in 1..MaxLen }

\* compute_eer applied to a label vector and the scores of a fitted model
InitEER ==
  /\ pc = "eer_start"
  /\ \E in \in EerInputs : y_true = in.t /\ y_score = in.s
  /\ y_pred = <<>>
  /\ eer_ret = NotCalled
  /\ g_used \in NoG
  /\ eer_ret_g = NotCalled
  /\ metrics = NoMetrics
  /\ HarnessIdle

\* eer, threshold = compute_eer(y_test, probs)
CallComputeEer ==
  /\ pc = "eer_start"
  /\ eer_ret' = compute_eer(y_true, y_score)
  /\ pc' = IF eer_ret'.err = "none" THEN "eer_returned" ELSE "raised"
  /\ UNCHANGED <<y_true, y_score, y_pred, g_used, eer_ret_g, metrics, hvars>>

\* compute_eer applied again to the same labels with transformed scores
CallComputeEerTransformed ==
  /\ pc = "eer_returned"
  /\ \E p \in Transforms :
       /\ g_used' = p
       /\ eer_ret_g' = compute_eer(y_true, MapScores(p, y_score))
  /\ pc' = "eer_compared"
  /\ UNCHANGED <<y_true, y_score, y_pred, eer_ret, metrics, hvars>>

NextEER == CallComputeEer \/ CallComputeEerTransformed

SpecEER == InitEER /\ [][NextEER]_vars

\* the metric calls of the evaluation loop on arbitrary label/prediction vectors
BinarySeqs == UNION { SeqsOfLen(Labels, n) : n \in 0..MaxLen }

InitMetrics ==
  /\ pc = "acc"
  /\ y_true \in BinarySeqs
  /\ y_pred \in BinarySeqs
  /\ y_score = <<>>
  /\ eer_ret = NotCalled
  /\ g_used \in NoG
  /\ eer_ret_g = NotCalled
  /\ metrics = NoMetrics
  /\ HarnessIdle

MetricCall(at, value, next) ==
  /\ pc = at
  /\ IF consistent_length(y_true, y_pred)
       THEN /\ metrics' = [metrics EXCEPT !.vals = Append(@, value)]
            /\ pc' = next
       ELSE /\ metrics' = [metrics EXCEPT !.err = "ValueError"]
            /\ pc' = "raised"
  /\ UNCHANGED <<y_true, y_score, y_pred, eer_ret, g_used, eer_ret_g, hvars>>

CallAccuracy == MetricCall("acc", accuracy_score(y_true, y_pred), "pre")
CallPrecision == MetricCall("pre", precision_score(y_true, y_pred), "rec")
CallRecall == MetricCall("rec", recall_score(y_true, y_pred), "f1")
CallF1 == MetricCall("f1", f1_score(y_true, y_pred), "appended")

NextMetrics == CallAccuracy \/ CallPrecision \/ CallRecall \/ CallF1

SpecMetrics == InitMetrics /\ [][NextMetrics]_vars

(* -------------------- the model-evaluation run ------------------------- *)
NTest == 2
MaxProb == 2

TestLabels == UNION { SeqsOfLen(Labels, n) : n \in 1..NTest }
\* hard labels and positive-class scores a fitted model gives for the test rows
Predictions == SeqsOfLen(Labels, Len(y_true))
\* positive-class scores in steps of 1/MaxProb; predict is the class of the
\* larger probability, so a row is predicted 1 exactly when its score is above 1/2
ProbaColumns ==
  {s \in SeqsOfLen(0..MaxProb, Len(y_true)) :
     \A k \in 1..Len(y_true) : (2 * s[k] > MaxProb) <=> (y_pred[k] = 1)}

\* the state before the scaling cell, for some test labels y_test
InitHarness ==
  /\ pc = "h_scaler_fit"
  /\ y_true \in TestLabels
  /\ y_pred = <<>>
  /\ y_score = <<>>
  /\ eer_ret = NotCalled
  /\ g_used \in NoG
  /\ eer_ret_g = NotCalled
  /\ metrics = NoMetrics
  /\ HarnessIdle

name == Models[item]

\* mutant: the exception is caught, a marker kept and the loop goes on
Raise_caught_and_continue(step, m) ==
  /\ pc' = "h_for"
  /\ failure' = [step |-> step, model |-> m]

\* an exception leaves the cell: nothing after the raising call is executed
Raise(step, m) ==
  /\ pc' = "h_raised"
  /\ failure' = [step |-> step, model |-> m]

\* X_train_scaled = scaler.fit_transform(X_train)
ScalerFitTransform ==
  /\ pc = "h_scaler_fit"
  /\ scaler' = [n_fits |-> scaler.n_fits + 1, fit_on |-> "X_train"]
  /\ X_train_scaled' = [of |-> "X_train", fit_on |-> scaler'.fit_on]
  /\ pc' = "h_scaler_transform"
  /\ UNCHANGED <<y_true, y_score, y_pred, eer_ret, g_used, eer_ret_g, metrics,
                 X_test_scaled, fitted, probs, results, item, rf_probs, failure>>

  /\ calls' = Append(calls, Call("fit_transform", "scaler", Raw("X_train"), "none", TRUE))
\* mutant: the test matrix goes through fit_transform, refitting the scaler
ScalerTransform_refits ==
  /\ pc = "h_scaler_transform"
  /\ scaler' = [n_fits |-> scaler.n_fits + 1, fit_on |-> "X_test"]
  /\ X_test_scaled' = [of |-> "X_test", fit_on |-> scaler'.fit_on]
  /\ pc' = "h_for"
  /\ UNCHANGED <<y_true, y_score, y_pred, eer_ret, g_used, eer_ret_g, metrics,
                 X_train_scaled, fitted, probs, results, item, rf_probs, failure>>

  /\ calls' = Append(calls, Call("fit_transform", "scaler", Raw("X_test"), "none", TRUE))
\* X_test_scaled = scaler.transform(X_test)
ScalerTransform ==
  /\ pc = "h_scaler_transform"
  /\ X_test_scaled' = [of |-> "X_test", fit_on |-> scaler.fit_on]
  /\ pc' = "h_for"
  /\ UNCHANGED <<y_true, y_score, y_pred, eer_ret, g_used, eer_ret_g, metrics,
                 scaler, X_train_scaled, fitted, probs, results, item, rf_probs, failure>>

  /\ calls' = Append(calls, Call("transform", "scaler", Raw("X_test"), "none", TRUE))
\* mutant: a placeholder entry is appended when a model's turn begins
ForNext_appends_placeholder ==
  /\ pc = "h_for"
  /\ IF item < Len(Models)
       THEN /\ item' = item + 1 /\ pc' = "h_fit"
            /\ results' = Append(results, [Model |-> Models[item + 1]])
       ELSE item' = item /\ pc' = "h_rf_probs" /\ results' = results
  /\ UNCHANGED <<y_true, y_score, y_pred, eer_ret, g_used, eer_ret_g, metrics,
                 scaler, X_train_scaled, X_test_scaled, fitted, probs,
                 rf_probs, failure, calls>>

\* for name, model in models.items(): the next item, or the end of the loop
ForNext ==
  /\ pc = "h_for"
  /\ IF item < Len(Models)
       THEN item' = item + 1 /\ pc' = "h_fit"
       ELSE item' = item /\ pc' = "h_rf_probs"
  /\ UNCHANGED <<y_true, y_score, y_pred, eer_ret, g_used, eer_ret_g, metrics,
                 scaler, X_train_scaled, X_test_scaled, fitted, probs, results,
                 rf_probs, failure>>

  /\ UNCHANGED calls
\* mutant: every registered model is fitted when the first one is reached
Fit_all_models ==
  /\ pc = "h_fit"
  /\ fitted' = [m \in ModelNames |->
                  [n_fits |-> fitted[m].n_fits + 1, X |-> X_train_scaled, y |-> "y_train"]]
  /\ pc' = "h_predict"
  /\ UNCHANGED <<y_true, y_score, y_pred, eer_ret, g_used, eer_ret_g, metrics,
                 scaler, X_train_scaled, X_test_scaled, probs, results, item, rf_probs,
                 failure>>

  /\ calls' = Append(calls, Call("fit", name, X_train_scaled, "y_train", TRUE))
\* model.fit(X_train_scaled, y_train): fits the estimator in place, or raises
Fit ==
  /\ pc = "h_fit"
  /\ \/ /\ fitted' = [fitted EXCEPT ![name] =
                        [n_fits |-> @.n_fits + 1, X |-> X_train_scaled, y |-> "y_train"]]
        /\ pc' = "h_predict"
        /\ UNCHANGED failure
     \/ /\ Raise("fit", name)
        /\ UNCHANGED fitted
  /\ UNCHANGED <<y_true, y_score, y_pred, eer_ret, g_used, eer_ret_g, metrics,
                 scaler, X_train_scaled, X_test_scaled, probs, results, item, rf_probs>>

  /\ calls' = Append(calls, Call("fit", name, X_train_scaled, "y_train", pc' /= "h_raised"))
\* y_pred = model.predict(X_test_scaled)
Predict ==
  /\ pc = "h_predict"
  /\ \/ /\ y_pred' \in Predictions
        /\ pc' = "h_proba"
        /\ UNCHANGED failure
     \/ /\ Raise("predict", name)
        /\ UNCHANGED y_pred
  /\ UNCHANGED <<y_true, y_score, eer_ret, g_used, eer_ret_g, metrics,
                 scaler, X_train_scaled, X_test_scaled, fitted, probs, results, item,
                 rf_probs>>

  /\ calls' = Append(calls, Call("predict", name, X_test_scaled, "none", pc' /= "h_raised"))
\* y_prob = model.predict_proba(X_test_scaled)[:, 1]
PredictProba ==
  /\ pc = "h_proba"
  /\ \/ /\ y_score' \in ProbaColumns
        /\ probs' = [probs EXCEPT ![name] = y_score']
        /\ pc' = "h_acc"
        /\ UNCHANGED failure
     \/ /\ Raise("predict_proba", name)
        /\ UNCHANGED <<y_score, probs>>
  /\ UNCHANGED <<y_true, y_pred, eer_ret, g_used, eer_ret_g, metrics,
                 scaler, X_train_scaled, X_test_scaled, fitted, results, item, rf_probs>>

  /\ calls' = Append(calls, Call("predict_proba", name, X_test_scaled, "none", pc' /= "h_raised"))
\* the variable at position k (acc, pre, rec, f1) is assigned
Assign(vals, k, v) == IF k <= Len(vals) THEN [vals EXCEPT ![k] = v] ELSE Append(vals, v)

\* acc / pre / rec / f1 = <metric>(y_test, y_pred)
LoopMetric(at, k, value, next) ==
  /\ pc = at
  /\ IF consistent_length(y_true, y_pred)
       THEN /\ metrics' = [metrics EXCEPT !.vals = Assign(@, k, value)]
            /\ pc' = next
            /\ UNCHANGED failure
       ELSE /\ Raise(at, name)
            /\ UNCHANGED metrics
  /\ UNCHANGED <<y_true, y_score, y_pred, eer_ret, g_used, eer_ret_g,
                 scaler, X_train_scaled, X_test_scaled, fitted, probs, results, item,
                 rf_probs>>

  /\ calls' = Append(calls, Call("metric", "none", NoData, "y_test", pc' /= "h_raised"))
LoopAccuracy == LoopMetric("h_acc", 1, accuracy_score(y_true, y_pred), "h_pre")
LoopPrecision == LoopMetric("h_pre", 2, precision_score(y_true, y_pred), "h_rec")
LoopRecall == LoopMetric("h_rec", 3, recall_score(y_true, y_pred), "h_f1")
LoopF1 == LoopMetric("h_f1", 4, f1_score(y_true, y_pred), "h_append")

\* mutant: only accuracy and F1 are kept in the dict
Report_accuracy_f1_only(m, vals) == [Model |-> m, Accuracy |-> vals[1], F1 |-> vals[4]]

\* the dict appended for one model
Report(m, vals) ==
  [Model |-> m, Accuracy |-> vals[1], Precision |-> vals[2], Recall |-> vals[3],
   F1 |-> vals[4]]

\* mutant: the report is inserted at the front of the list
AppendReport_at_front ==
  /\ pc = "h_append"
  /\ results' = <<Report(name, metrics.vals)>> \o results
  /\ pc' = "h_for"
  /\ UNCHANGED <<y_true, y_score, y_pred, eer_ret, g_used, eer_ret_g, metrics,
                 scaler, X_train_scaled, X_test_scaled, fitted, probs, item, rf_probs,
                 failure>>

  /\ UNCHANGED calls
\* mutant: the list is rebuilt with the current report only
AppendReport_overwrites ==
  /\ pc = "h_append"
  /\ results' = <<Report(name, metrics.vals)>>
  /\ pc' = "h_for"
  /\ UNCHANGED <<y_true, y_score, y_pred, eer_ret, g_used, eer_ret_g, metrics,
                 scaler, X_train_scaled, X_test_scaled, fitted, probs, item, rf_probs,
                 failure>>

  /\ UNCHANGED calls
\* results.append({...}); print(...)
AppendReport ==
  /\ pc = "h_append"
  /\ results' = Append(results, Report(name, metrics.vals))
  /\ pc' = "h_for"
  /\ UNCHANGED <<y_true, y_score, y_pred, eer_ret, g_used, eer_ret_g, metrics,
                 scaler, X_train_scaled, X_test_scaled, fitted, probs, item, rf_probs,
                 failure>>

  /\ UNCHANGED calls
\* rf_probs = models['RandomForest'].predict_proba(X_test_scaled)[:, 1]: the
\* fitted instance gives the scores it gave in the loop
RfProbs ==
  /\ pc = "h_rf_probs"
  /\ rf_probs' = probs["RandomForest"]
  /\ pc' = "h_eer"
  /\ UNCHANGED <<y_true, y_score, y_pred, eer_ret, g_used, eer_ret_g, metrics,
                 scaler, X_train_scaled, X_test_scaled, fitted, probs, results, item,
                 failure>>

  /\ calls' = Append(calls, Call("predict_proba", "RandomForest", X_test_scaled, "none", TRUE))
\* mutant: the scores are sorted in place before the sweep
EerCell_sorts_scores_in_place ==
  /\ pc = "h_eer"
  /\ rf_probs' = Permute(rf_probs, desc_score_indices(rf_probs))
  /\ IF compute_eer(y_true, rf_probs).err = "none"
       THEN /\ eer_ret' = compute_eer(y_true, rf_probs)
            /\ pc' = "h_display"
            /\ UNCHANGED failure
       ELSE /\ Raise("compute_eer", "RandomForest")
            /\ UNCHANGED eer_ret
  /\ UNCHANGED <<y_true, y_score, y_pred, g_used, eer_ret_g, metrics,
                 scaler, X_train_scaled, X_test_scaled, fitted, probs, results, item>>

  /\ calls' = Append(calls, Call("compute_eer", "none", NoData, "y_test", pc' /= "h_raised"))
\* eer, threshold = compute_eer(y_test, rf_probs); print(...)
EerCell ==
  /\ pc = "h_eer"
  /\ IF compute_eer(y_true, rf_probs).err = "none"
       THEN /\ eer_ret' = compute_eer(y_true, rf_probs)
            /\ pc' = "h_display"
            /\ UNCHANGED failure
       ELSE /\ Raise("compute_eer", "RandomForest")
            /\ UNCHANGED eer_ret
  /\ UNCHANGED <<y_true, y_score, y_pred, g_used, eer_ret_g, metrics,
                 scaler, X_train_scaled, X_test_scaled, fitted, probs, results, item,
                 rf_probs>>

  /\ calls' = Append(calls, Call("compute_eer", "none", NoData, "y_test", pc' /= "h_raised"))
\* ConfusionMatrixDisplay.from_estimator(models['RandomForest'], X_test_scaled, y_test)
Display ==
  /\ pc = "h_display"
  /\ pc' = "h_done"
  /\ calls' = Append(calls, Call("from_estimator", "RandomForest", X_test_scaled, "y_test", TRUE))
  /\ UNCHANGED <<y_true, y_score, y_pred, eer_ret, g_used, eer_ret_g, metrics,
                 scaler, X_train_scaled, X_test_scaled, fitted, probs, results, item,
                 rf_probs, failure>>

NextHarness ==
  \/ ScalerFitTransform \/ ScalerTransform \/ ForNext \/ Fit \/ Predict
  \/ PredictProba \/ LoopAccuracy \/ LoopPrecision \/ LoopRecall \/ LoopF1
  \/ AppendReport \/ RfProbs \/ EerCell \/ Display

SpecHarness == InitHarness /\ [][NextHarness]_vars

(* ===================== properties of compute_eer ======================= *)
BothClasses == (\E k \in DOMAIN y_true : y_true[k] = 1) /\ (\E k \in DOMAIN y_true : y_true[k] = 0)
Returned == pc \in {"eer_returned", "eer_compared"}

\* the ROC sequence compute_eer works on, for the inputs of the state
RocNow == roc_curve(y_true, y_score)
Fnr(roc, k) == RSub(One, roc.tpr[k])
Gap(roc, k) == RAbs(RSub(roc.fpr[k], Fnr(roc, k)))
\* the position of the returned threshold in the ROC sequence (0: none)
PosOf(roc, thr) ==
  IF \E k \in 1..Len(roc.thresholds) : roc.thresholds[k] = thr
    THEN CHOOSE k \in 1..Len(roc.thresholds) : roc.thresholds[k] = thr
    ELSE 0
Genuine == {k \in DOMAIN y_true : y_true[k] = 1}
Forged == {k \in DOMAIN y_true : y_true[k] = 0}
Separable == BothClasses /\ \A i \in Genuine : \A j \in Forged : y_score[i] > y_score[j]
AllScoresEqual == \A i, j \in DOMAIN y_score : y_score[i] = y_score[j]

\* C1: on every valid input the returned point is the ROC point of the sequence
\* roc_curve returns whose |fpr - fnr| is least, and among several least ones
\* the one that comes first in descending-threshold order.
C1_SelectsFirstMinimalGap ==
  (Returned /\ BothClasses) =>
    LET roc == RocNow
        j   == PosOf(roc, eer_ret.threshold)
    IN /\ j /= 0
       /\ \A m \in 1..Len(roc.thresholds) : RLe(Gap(roc, j), Gap(roc, m))
       /\ \A m \in 1..(j - 1) : RLt(Gap(roc, j), Gap(roc, m))

\* C1 witness: a valid input with two ROC points of least gap, the first returned
C1_Witness ==
  /\ Returned /\ BothClasses
  /\ LET roc == RocNow
         j   == PosOf(roc, eer_ret.threshold)
     IN \E m \in (j + 1)..Len(roc.thresholds) : REq(Gap(roc, j), Gap(roc, m))

\* C2: the returned eer is exactly (fpr + fnr)/2 at the selected ROC point and the
\* returned threshold is that point's threshold, also when fpr /= fnr there.
C2_EerIsAverageAtPoint ==
  (Returned /\ BothClasses) =>
    LET roc == RocNow
        j   == PosOf(roc, eer_ret.threshold)
    IN /\ j /= 0
       /\ ~eer_ret.eer.nan
       /\ 2 * eer_ret.eer.n * roc.fpr[j].d * roc.tpr[j].d
            = eer_ret.eer.d * (roc.fpr[j].n * roc.tpr[j].d
                               + (roc.tpr[j].d - roc.tpr[j].n) * roc.fpr[j].d)

\* C2 witness: a returned point at which fpr and fnr differ
C2_Witness ==
  /\ Returned /\ BothClasses
  /\ LET roc == RocNow
         j   == PosOf(roc, eer_ret.threshold)
     IN j /= 0 /\ ~REq(roc.fpr[j], Fnr(roc, j))

\* C3 as stated: the returned eer lies in [0, 0.5].
C3_EerAtMostHalf ==
  (Returned /\ BothClasses) => (RLe(Rat(0, 1), eer_ret.eer) /\ RLe(eer_ret.eer, Rat(1, 2)))

\* C3 amended: the returned eer lies in [0, 1]; values above 0.5 occur when the
\* scores rank forged samples above genuine ones.
C3_EerInUnitInterval ==
  (Returned /\ BothClasses) => (RLe(Rat(0, 1), eer_ret.eer) /\ RLe(eer_ret.eer, One))

\* C3 witness: an eer above 0.5 is returned
C3_Witness == Returned /\ BothClasses /\ RLt(Rat(1, 2), eer_ret.eer)

\* C4: when every genuine score is greater than every forged score, eer = 0; in
\* particular for y_true = [1,1,0,0], y_score = [0.9,0.8,0.3,0.1] (in tenths).
C4_SeparableGivesZero ==
  (Returned /\ Separable) => (~eer_ret.eer.nan /\ eer_ret.eer.n = 0)

\* C4 witness: the scenario input has been evaluated
C4_Witness ==
  /\ Returned /\ Separable
  /\ y_true = <<1, 1, 0, 0>> /\ y_score = <<9, 8, 3, 1>>
  /\ eer_ret.eer.n = 0

MaxOf(S) == CHOOSE x \in S : \A y \in S : y <= x
MinOf(S) == CHOOSE x \in S : \A y \in S : x <= y

\* C5 as stated: on separable input the returned threshold is strictly above the
\* largest forged score and strictly below the smallest genuine score.
C5_ThresholdStrictlyBetween ==
  (Returned /\ Separable) =>
    /\ ~eer_ret.threshold.inf
    /\ eer_ret.threshold.v > MaxOf({y_score[k] : k \in Forged})
    /\ eer_ret.threshold.v < MinOf({y_score[k] : k \in Genuine})

\* C5 amended: on separable input the returned threshold is the smallest genuine
\* score itself: strictly above every forged score, equal to (not below) the
\* smallest genuine score.
C5_ThresholdIsSmallestGenuine ==
  (Returned /\ Separable) =>
    /\ ~eer_ret.threshold.inf
    /\ eer_ret.threshold.v > MaxOf({y_score[k] : k \in Forged})
    /\ eer_ret.threshold.v = MinOf({y_score[k] : k \in Genuine})

\* C5 witness: separable input with several genuine scores, threshold returned
C5_Witness ==
  /\ Returned /\ Separable
  /\ Cardinality({y_score[k] : k \in Genuine}) > 1
  /\ eer_ret.threshold = Fin(MinOf({y_score[k] : k \in Genuine}))

\* C6: with both classes present and all scores identical, eer = 0.5.
C6_IdenticalScoresGiveHalf ==
  (Returned /\ BothClasses /\ AllScoresEqual) =>
    (~eer_ret.eer.nan /\ 2 * eer_ret.eer.n = eer_ret.eer.d)

\* C6 witness: identical scores over unbalanced classes, evaluated
C6_Witness ==
  /\ Returned /\ BothClasses /\ AllScoresEqual
  /\ Cardinality(Genuine) /= Cardinality(Forged)
  /\ eer_ret.threshold.inf

\* C7: for every strictly increasing transform g of the scores, compute_eer on
\* g(y_score) returns the same eer, selects the ROC point of the same index, and
\* its threshold is g of the original threshold when that is a score value.
C7_MonotoneInvariant ==
  (pc = "eer_compared" /\ BothClasses) =>
    /\ eer_ret_g.err = "none"
    /\ REq(eer_ret_g.eer, eer_ret.eer)
    /\ PosOf(roc_curve(y_true, MapScores(g_used, y_score)), eer_ret_g.threshold)
         = PosOf(RocNow, eer_ret.threshold)
    /\ eer_ret_g.threshold.inf = eer_ret.threshold.inf
    /\ ~eer_ret.threshold.inf =>
         eer_ret_g.threshold.v = ApplyG(g_used, eer_ret.threshold.v)

\* C7 witness: a transform that scales and opens a gap between two scores that
\* occur, with a score value as threshold
C7_Witness ==
  /\ pc = "eer_compared" /\ BothClasses
  /\ g_used.a > 1
  /\ \E i, j \in DOMAIN y_score : y_score[i] < g_used.cut /\ y_score[j] >= g_used.cut
  /\ ~eer_ret.threshold.inf
  /\ eer_ret_g.threshold.v /= eer_ret.threshold.v

\* C8: with all labels identical (all 0 or all 1) compute_eer fails (the
\* degenerate-label-set failure, raised as ValueError by the NaN-skipping
\* argmin) and returns no result.
C8_OneClassFails ==
  (pc /= "eer_start" /\ ~BothClasses) =>
    (pc = "raised" /\ eer_ret = NoResult)

\* C8 witness: all-genuine labels with distinct scores, call raised
C8_Witness ==
  /\ pc = "raised" /\ eer_ret.err = "ValueError"
  /\ Len(y_true) > 1 /\ Forged = {} /\ ~AllScoresEqual

(* =================== properties of the metric calls ==================== *)
AccuracyCalled == pc \in {"pre", "rec", "f1", "appended", "raised"}

RECURSIVE Matches(_)
Matches(k) == IF k = 0 THEN 0 ELSE (IF y_true[k] = y_pred[k] THEN 1 ELSE 0) + Matches(k - 1)

\* C10: for non-empty equal-length inputs accuracy = matches / n, lies in [0,1],
\* is 1 iff every prediction matches its label and 0 iff every one is wrong.
C10_Accuracy ==
  (AccuracyCalled /\ Len(y_true) = Len(y_pred) /\ Len(y_true) > 0) =>
    LET acc == metrics.vals[1]
    IN /\ pc /= "raised"
       /\ ~acc.nan
       /\ acc.n * Len(y_true) = Matches(Len(y_true)) * acc.d
       /\ RLe(Rat(0, 1), acc) /\ RLe(acc, One)
       /\ REq(acc, One) <=> (\A k \in DOMAIN y_true : y_pred[k] = y_true[k])
       /\ REq(acc, Rat(0, 1)) <=> (\A k \in DOMAIN y_true : y_pred[k] /= y_true[k])

\* C10 witness: an accuracy strictly between 0 and 1 has been computed
C10_Witness ==
  /\ AccuracyCalled /\ pc /= "raised" /\ Len(y_true) > 1
  /\ RLt(Rat(0, 1), metrics.vals[1]) /\ RLt(metrics.vals[1], One)

\* confusion counts of the state's label/prediction vectors, counted position
\* by position
RECURSIVE Confusion(_, _, _)
Confusion(k, a, b) ==
  IF k = 0 THEN 0
  ELSE (IF y_true[k] = a /\ y_pred[k] = b THEN 1 ELSE 0) + Confusion(k - 1, a, b)
TP == Confusion(Len(y_true), 1, 1)
FP == Confusion(Len(y_true), 0, 1)
FN == Confusion(Len(y_true), 1, 0)
PrecisionCalled == pc \in {"rec", "f1", "appended"}
RecallCalled == pc \in {"f1", "appended"}
F1Called == pc = "appended"

\* C11: precision = TP/(TP+FP) and recall = TP/(TP+FN); with a zero denominator
\* the metric is the value 0, never NaN and never an error.
C11_PrecisionRecallZeroPolicy ==
  (AccuracyCalled /\ Len(y_true) = Len(y_pred)) =>
    /\ pc /= "raised" /\ metrics.err = "none"
    /\ PrecisionCalled =>
         LET pre == metrics.vals[2]
         IN /\ ~pre.nan
            /\ (TP + FP = 0) => pre.n = 0
            /\ (TP + FP > 0) => pre.n * (TP + FP) = TP * pre.d
    /\ RecallCalled =>
         LET rec == metrics.vals[3]
         IN /\ ~rec.nan
            /\ (TP + FN = 0) => rec.n = 0
            /\ (TP + FN > 0) => rec.n * (TP + FN) = TP * rec.d

\* C11 witness: no predicted positive and no actual positive, both metrics
\* reported as 0, besides inputs with non-zero denominators
C11_Witness ==
  /\ RecallCalled /\ Len(y_true) = Len(y_pred) /\ Len(y_true) > 0
  /\ TP + FP = 0 /\ TP + FN = 0
  /\ metrics.vals[2] = Rat(0, 1) /\ metrics.vals[3] = Rat(0, 1)

\* C12: precision and recall are in [0,1]; f1 is the harmonic mean of precision
\* and recall, 0 when both are 0 and 1 when both are 1.
C12_F1HarmonicMean ==
  (F1Called /\ Len(y_true) = Len(y_pred) /\ Len(y_true) > 0) =>
    LET pre == metrics.vals[2]
        rec == metrics.vals[3]
        f1  == metrics.vals[4]
    IN /\ RLe(Rat(0, 1), pre) /\ RLe(pre, One)
       /\ RLe(Rat(0, 1), rec) /\ RLe(rec, One)
       /\ ~f1.nan
       /\ (pre.n = 0 /\ rec.n = 0) => f1.n = 0
       /\ (pre.n > 0 \/ rec.n > 0) =>
            f1.n * (pre.n * rec.d + rec.n * pre.d) = 2 * pre.n * rec.n * f1.d
       /\ (REq(pre, One) /\ REq(rec, One)) => REq(f1, One)

\* C12 witness: precision and recall differ and are both positive, f1 computed
C12_Witness ==
  /\ F1Called /\ Len(y_true) = Len(y_pred)
  /\ metrics.vals[2].n > 0 /\ metrics.vals[3].n > 0
  /\ ~REq(metrics.vals[2], metrics.vals[3])
  /\ RLt(metrics.vals[4], One)

(* ================= properties of the model-evaluation run ============== *)
ModelSteps == {"fit", "predict", "predict_proba", "h_acc", "h_pre", "h_rec", "h_f1"}
ModelFailed == failure.step \in ModelSteps
LoopBody == {"h_fit", "h_predict", "h_proba", "h_acc", "h_pre", "h_rec", "h_f1", "h_append"}
AfterLoop == {"h_rf_probs", "h_eer", "h_display", "h_done"}
RunEnded == pc \in {"h_done", "h_raised"}
ReportedNames == [k \in 1..Len(results) |-> results[k].Model]
HasReport(m) == \E k \in 1..Len(results) : results[k].Model = m

C14_OneReportPerModelInOrder ==
  /\ (pc \in AfterLoop \/ (pc = "h_raised" /\ ~ModelFailed)) => ReportedNames = Models
  /\ \A j, k \in 1..Len(results) : results[j].Model = results[k].Model => j = k
  /\ ReportedNames = SubSeq(Models, 1, Len(results))

\* C14 witness: the run is over, two reports with different names and values
C14_Witness ==
  /\ pc = "h_done" /\ Len(results) = Len(Models)
  /\ results[1].Accuracy /= results[2].Accuracy

ReportFields == {"Model", "Accuracy", "Precision", "Recall", "F1"}

C16_OneModelAtATime ==
  (pc \in LoopBody) =>
    /\ item \in 1..Len(Models)
    /\ Len(results) = item - 1
    /\ \A k \in 1..(item - 1) : fitted[Models[k]].n_fits = 1 /\ HasReport(Models[k])
    /\ \A k \in (item + 1)..Len(Models) : fitted[Models[k]].n_fits = 0
    /\ fitted[Models[item]].n_fits = (IF pc = "h_fit" THEN 0 ELSE 1)

\* C16 witness: the second model is about to be fitted, the first is reported
C16_Witness ==
  /\ pc = "h_fit" /\ item = 2 /\ Len(results) = 1
  /\ fitted["RandomForest"].n_fits = 1 /\ fitted["KNN"].n_fits = 0

\* C17: once a report is appended no later step changes it or its position;
\* results only grows by appending.
C17_ResultsAppendOnly ==
  [][/\ Len(results') >= Len(results)
     /\ Len(results') <= Len(results) + 1
     /\ \A k \in 1..Len(results) : results'[k] = results[k]]_vars

\* C17 witness: the first report is in place while the second model has been
\* evaluated and its report is about to be appended
C17_Witness ==
  /\ pc = "h_append" /\ item = 2 /\ Len(results) = 1
  /\ metrics.vals[1] /= results[1].Accuracy

\* C18: the scaler is fitted exactly once, on the train features only, before
\* any classifier is fitted; the same fitted scaler is applied to train and test
\* features, and transforming the test features leaves its fit unchanged.
C18_ScalerFittedOnceOnTrain ==
  /\ pc = "h_scaler_fit" => (scaler.n_fits = 0 /\ \A m \in ModelNames : fitted[m].n_fits = 0)
  /\ pc /= "h_scaler_fit" =>
       /\ scaler = [n_fits |-> 1, fit_on |-> "X_train"]
       /\ X_train_scaled = [of |-> "X_train", fit_on |-> "X_train"]
  /\ pc \notin {"h_scaler_fit", "h_scaler_transform"} =>
       X_test_scaled = [of |-> "X_test", fit_on |-> "X_train"]
  /\ \A m \in ModelNames :
       fitted[m].n_fits > 0 => fitted[m].X = [of |-> "X_train", fit_on |-> "X_train"]

\* C18 witness: a classifier has been fitted after the test features were scaled
C18_Witness ==
  /\ pc = "h_predict" /\ fitted["RandomForest"].n_fits = 1
  /\ X_test_scaled.of = "X_test" /\ scaler.n_fits = 1

\* C19: compute_eer and the metric calls have no side effects: a call,
\* successful or failing, leaves y_true, y_score, y_pred, the fitted models,
\* their scores and the results list unchanged.
C19_CallsLeaveInputsUnchanged ==
  [][(pc \in {"h_acc", "h_pre", "h_rec", "h_f1", "h_eer"}) =>
       UNCHANGED <<y_true, y_score, y_pred, rf_probs, fitted, probs, results>>]_vars

\* C19 witness: compute_eer has failed on one-class test labels with unsorted
\* scores, after both reports were appended
C19_Witness ==
  /\ pc = "h_raised" /\ failure.step = "compute_eer"
  /\ Len(results) = Len(Models)
  /\ Len(rf_probs) > 1 /\ rf_probs[1] < rf_probs[Len(rf_probs)]

(* ================= the candidate thresholds of the sweep ================ *)
ScoreSet == {y_score[k] : k \in DOMAIN y_score}
FiniteOf(thr) == {thr[k].v : k \in {j \in DOMAIN thr : ~thr[j].inf}}
ThrDescending(thr) ==
  \A k \in 1..(Len(thr) - 1) :
    ~thr[k + 1].inf /\ (thr[k].inf \/ thr[k].v > thr[k + 1].v)
Swept == pc /= "eer_start" /\ Len(y_score) > 0 /\ Len(y_score) = Len(y_true)
\* samples of label c scoring at least s
CountAtOrAbove(c, s) == Cardinality({k \in DOMAIN y_score : y_true[k] = c /\ y_score[k] >= s})
\* the ROC point of score s lies on the straight line between its neighbours
Collinear(s, scores) ==
  /\ \E x \in scores : x > s
  /\ \E x \in scores : x < s
  /\ \A c \in Labels :
       CountAtOrAbove(c, MaxOf({x \in scores : x < s})) - CountAtOrAbove(c, s)
         = CountAtOrAbove(c, s) - CountAtOrAbove(c, MinOf({x \in scores : x > s}))

FlaggedAt(c, t) == IF t.inf THEN 0 ELSE CountAtOrAbove(c, t.v)
ClassSize(c) == Cardinality({k \in DOMAIN y_true : y_true[k] = c})

\* C21: at every ROC point with threshold t, fpr is the share of negatives
\* scoring at least t and tpr the share of positives scoring at least t; equal
\* scores get the same decision, so no two points share a threshold and there
\* is at most one point per distinct score besides the boundary point.
C21_RatesCountScoresAtOrAbove ==
  (Returned /\ BothClasses) =>
    LET roc == RocNow
    IN /\ \A k \in 1..Len(roc.thresholds) :
            /\ ~roc.fpr[k].nan /\ ~roc.tpr[k].nan
            /\ REq(roc.fpr[k], Rat(FlaggedAt(0, roc.thresholds[k]), ClassSize(0)))
            /\ REq(roc.tpr[k], Rat(FlaggedAt(1, roc.thresholds[k]), ClassSize(1)))
       /\ \A j, k \in 1..Len(roc.thresholds) :
            roc.thresholds[j] = roc.thresholds[k] => j = k
       /\ Len(roc.thresholds) <= Cardinality(ScoreSet) + 1

\* C21 witness: the tied-score scenario, four samples and three ROC points
C21_Witness ==
  /\ Returned /\ y_true = <<1, 0, 1, 0>> /\ y_score = <<6, 6, 4, 4>>
  /\ RocNow.thresholds = <<Inf, Fin(6), Fin(4)>>

\* C22: along the ROC sequence, as the threshold decreases, fpr and tpr never
\* decrease; the first point is (0, 0) at the upper boundary threshold and the
\* last point is (1, 1).
C22_RocMonotoneFromOriginToOne ==
  (Returned /\ BothClasses) =>
    LET roc == RocNow
        n == Len(roc.thresholds)
    IN /\ n = Len(roc.fpr) /\ n = Len(roc.tpr) /\ n >= 2
       /\ roc.thresholds[1].inf
       /\ REq(roc.fpr[1], Rat(0, 1)) /\ REq(roc.tpr[1], Rat(0, 1))
       /\ REq(roc.fpr[n], Rat(1, 1)) /\ REq(roc.tpr[n], Rat(1, 1))
       /\ \A k \in 1..(n - 1) :
            /\ RLe(roc.fpr[k], roc.fpr[k + 1])
            /\ RLe(roc.tpr[k], roc.tpr[k + 1])
       /\ ThrDescending(roc.thresholds)

\* C22 witness: a returned sweep whose curve has two interior points, one
\* raising only tpr and one raising only fpr
C22_Witness ==
  /\ Returned /\ BothClasses /\ Len(RocNow.thresholds) >= 4
  /\ \E k \in 2..3 : REq(RocNow.fpr[k], RocNow.fpr[k + 1])
  /\ \E k \in 2..3 : REq(RocNow.tpr[k], RocNow.tpr[k + 1])

\* C26: for every valid input the returned threshold is one of the values of
\* y_score, except that it is the upper boundary threshold exactly when all
\* scores are identical.
C26_ThresholdIsScoreUnlessAllEqual ==
  (Returned /\ BothClasses) =>
    /\ eer_ret.threshold = Inf <=> AllScoresEqual
    /\ ~AllScoresEqual =>
         (~eer_ret.threshold.inf /\ eer_ret.threshold.v \in ScoreSet)

\* C26 witness: scores not all equal, the returned threshold is a score value
\* other than the maximum
C26_Witness ==
  /\ Returned /\ BothClasses /\ ~AllScoresEqual
  /\ ~eer_ret.threshold.inf /\ eer_ret.threshold.v \in ScoreSet
  /\ eer_ret.threshold.v < MaxOf(ScoreSet)

(* ================= the results list when a model's step raises ========= *)
\* C25: if fit, predict, predict_proba or a metric call raises for the k-th
\* model of the loop, results then holds exactly the k-1 complete reports of
\* the earlier models in registration order, no partial or placeholder entry
\* for model k, and no later model has been fitted.
C25_RaiseLeavesEarlierReportsOnly ==
  (pc = "h_raised" /\ ModelFailed) =>
    /\ item \in 1..Len(Models) /\ failure.model = Models[item]
    /\ Len(results) = item - 1
    /\ \A j \in 1..Len(results) :
         /\ results[j].Model = Models[j]
         /\ DOMAIN results[j] = ReportFields
         /\ results[j].Model /= failure.model
    /\ \A j \in (item + 1)..Len(Models) : fitted[Models[j]] = Unfitted
    /\ \A j \in (item + 1)..Len(Models) :
         \A c \in 1..Len(calls) : calls[c].model /= Models[j]
    /\ ~calls[Len(calls)].ok

\* C25 witness: the fit of the second model raised, the first report is there
C25_Witness ==
  /\ pc = "h_raised" /\ failure = [step |-> "fit", model |-> Models[2]]
  /\ Len(results) = 1 /\ DOMAIN results[1] = ReportFields

(* ================= the three notebooks as call sequences ================ *)
\* every object fitted in the notebooks
EstimatorNames == ModelNames \cup {"xgb", "mlp", "grid_xgb", "grid_mlp", "voting", "stack"}
\* one call statement: the function, the estimator and the score variable used
St(op, m) == [op |-> op, model |-> m, var |-> "y_prob"]
\* the loop body of 3.ipynb for one model (the loop runs over the two models)
LoopCalls(m) ==
  <<St("fit", m), St("predict", m), St("predict_proba", m),
    St("accuracy_score", m), St("precision_score", m), St("recall_score", m),
    St("f1_score", m), St("append", m)>>
\* the calls of one model's cell in 4.ipynb and 5.ipynb
CellCalls(m) ==
  <<St("fit", m), St("predict", m), St("predict_proba", m),
    St("accuracy_score", m), St("f1_score", m)>>
ScalingCell == <<St("fit_transform", "scaler"), St("transform", "scaler")>>
\* 3.ipynb: scaling cell, the loop, rf_probs and compute_eer, display
Script3 ==
  ScalingCell \o LoopCalls(Models[1]) \o LoopCalls(Models[2])
    \o <<[op |-> "predict_proba", model |-> "RandomForest", var |-> "rf_probs"],
         [op |-> "compute_eer", model |-> "RandomForest", var |-> "rf_probs"],
         St("from_estimator", "RandomForest")>>
\* 4.ipynb: scaling cell, xgb cell, mlp cell, voting cell, EER and display cell
Script4 ==
  ScalingCell \o CellCalls("xgb") \o CellCalls("mlp") \o CellCalls("voting")
    \o <<St("compute_eer", "voting"), St("from_estimator", "voting")>>
\* 5.ipynb: scaling cell, the two grid searches, voting cell, EER, stacking and display
Script5 ==
  ScalingCell \o <<St("fit", "grid_xgb"), St("fit", "grid_mlp")>>
    \o CellCalls("voting") \o <<St("compute_eer", "voting")>>
    \o CellCalls("stack") \o <<St("from_estimator", "stack")>>
Notebooks == {"nb3", "nb4", "nb5"}
Script == IF pc = "nb3" THEN Script3 ELSE IF pc = "nb4" THEN Script4 ELSE Script5
stmt == Script[item]
\* the statement after the current one, or the end of the notebook
Advance ==
  /\ item' = item + 1
  /\ pc' = IF item = Len(Script) THEN "nb_done" ELSE pc
At(op) == pc \in Notebooks /\ item <= Len(Script) /\ stmt.op = op

InitNotebooks ==
  /\ pc \in Notebooks
  /\ y_true \in TestLabels
  /\ y_pred = <<>>
  /\ y_score = <<>>
  /\ eer_ret = NotCalled
  /\ g_used \in NoG
  /\ eer_ret_g = NotCalled
  /\ metrics = NoMetrics
  /\ scaler = [n_fits |-> 0, fit_on |-> "none"]
  /\ X_train_scaled = NoData
  /\ X_test_scaled = NoData
  /\ fitted = [m \in EstimatorNames |-> Unfitted]
  /\ probs = [m \in EstimatorNames |-> <<>>]
  /\ results = <<>>
  /\ item = 1
  /\ rf_probs = <<>>
  /\ failure = NoFailure
  /\ calls = <<>>

\* X_train_scaled = scaler.fit_transform(X_train)
NbScalerFitTransform ==
  /\ At("fit_transform")
  /\ scaler' = [n_fits |-> scaler.n_fits + 1, fit_on |-> "X_train"]
  /\ X_train_scaled' = [of |-> "X_train", fit_on |-> scaler'.fit_on]
  /\ Advance
  /\ calls' = Append(calls, Call("fit_transform", "scaler", Raw("X_train"), "none", TRUE))
  /\ UNCHANGED <<y_true, y_score, y_pred, eer_ret, g_used, eer_ret_g, metrics,
                 X_test_scaled, fitted, probs, results, rf_probs, failure>>

\* X_test_scaled = scaler.transform(X_test)
NbScalerTransform ==
  /\ At("transform")
  /\ X_test_scaled' = [of |-> "X_test", fit_on |-> scaler.fit_on]
  /\ Advance
  /\ calls' = Append(calls, Call("transform", "scaler", Raw("X_test"), "none", TRUE))
  /\ UNCHANGED <<y_true, y_score, y_pred, eer_ret, g_used, eer_ret_g, metrics,
                 scaler, X_train_scaled, fitted, probs, results, rf_probs, failure>>

\* mutant: the estimator is fitted on the scaled test split
NbFit_on_test ==
  /\ At("fit")
  /\ fitted' = [fitted EXCEPT ![stmt.model] =
                  [n_fits |-> @.n_fits + 1, X |-> X_test_scaled, y |-> "y_test"]]
  /\ Advance
  /\ calls' = Append(calls, Call("fit", stmt.model, X_test_scaled, "y_test", TRUE))
  /\ UNCHANGED <<y_true, y_score, y_pred, eer_ret, g_used, eer_ret_g, metrics,
                 scaler, X_train_scaled, X_test_scaled, probs, results, rf_probs, failure>>

\* mutant: the fit call is left out of the cell
NbFit_left_out ==
  /\ At("fit")
  /\ Advance
  /\ UNCHANGED <<y_true, y_score, y_pred, eer_ret, g_used, eer_ret_g, metrics,
                 scaler, X_train_scaled, X_test_scaled, fitted, probs, results, rf_probs,
                 failure, calls>>

\* model.fit / xgb.fit / mlp.fit / grid_*.fit / voting.fit / stack.fit
\* (X_train_scaled, y_train)
NbFit ==
  /\ At("fit")
  /\ \/ /\ fitted' = [fitted EXCEPT ![stmt.model] =
                        [n_fits |-> @.n_fits + 1, X |-> X_train_scaled, y |-> "y_train"]]
        /\ Advance
        /\ UNCHANGED failure
     \/ /\ Raise("fit", stmt.model)
        /\ UNCHANGED <<fitted, item>>
  /\ calls' = Append(calls, Call("fit", stmt.model, X_train_scaled, "y_train", pc' /= "h_raised"))
  /\ UNCHANGED <<y_true, y_score, y_pred, eer_ret, g_used, eer_ret_g, metrics,
                 scaler, X_train_scaled, X_test_scaled, probs, results, rf_probs>>

\* y_pred = model.predict(X_test_scaled)
NbPredict ==
  /\ At("predict")
  /\ \/ /\ y_pred' \in Predictions
        /\ Advance
        /\ UNCHANGED failure
     \/ /\ Raise("predict", stmt.model)
        /\ UNCHANGED <<y_pred, item>>
  /\ calls' = Append(calls, Call("predict", stmt.model, X_test_scaled, "none", pc' /= "h_raised"))
  /\ UNCHANGED <<y_true, y_score, eer_ret, g_used, eer_ret_g, metrics,
                 scaler, X_train_scaled, X_test_scaled, fitted, probs, results, rf_probs>>

\* a later statement asks the same fitted model for its scores again
AskedAgain(m) ==
  \E j \in (item + 1)..Len(Script) : Script[j].op = "predict_proba" /\ Script[j].model = m

\* y_prob = model.predict_proba(X_test_scaled)[:, 1]; the second call on the
\* fitted RandomForest (rf_probs) returns what the first returned, so the
\* scores of a model that is asked again are remembered in probs
NbPredictProba ==
  /\ At("predict_proba")
  /\ \/ /\ IF stmt.var = "rf_probs"
             THEN /\ rf_probs' = probs[stmt.model]
                  /\ UNCHANGED <<y_score, probs>>
             ELSE /\ y_score' \in ProbaColumns
                  /\ probs' = IF AskedAgain(stmt.model)
                                THEN [probs EXCEPT ![stmt.model] = y_score']
                                ELSE probs
                  /\ UNCHANGED rf_probs
        /\ Advance
        /\ UNCHANGED failure
     \/ /\ stmt.var = "y_prob"
        /\ Raise("predict_proba", stmt.model)
        /\ UNCHANGED <<y_score, probs, rf_probs, item>>
  /\ calls' = Append(calls, Call("predict_proba", stmt.model, X_test_scaled, "none",
                                 pc' /= "h_raised"))
  /\ UNCHANGED <<y_true, y_pred, eer_ret, g_used, eer_ret_g, metrics,
                 scaler, X_train_scaled, X_test_scaled, fitted, results>>

\* the metric call of the current statement and the variable it assigns
NbMetricCall(op, k, value) ==
  /\ At(op)
  /\ metrics' = [metrics EXCEPT !.vals = Assign(@, k, value)]
  /\ Advance
  /\ calls' = Append(calls, Call("metric", "none", NoData, "y_test", TRUE))
  /\ UNCHANGED <<y_true, y_score, y_pred, eer_ret, g_used, eer_ret_g,
                 scaler, X_train_scaled, X_test_scaled, fitted, probs, results, rf_probs,
                 failure>>

\* acc, pre, rec, f1 (4.ipynb and 5.ipynb keep acc and f1 only)
NbAccuracy == NbMetricCall("accuracy_score", 1, accuracy_score(y_true, y_pred))
NbPrecision == NbMetricCall("precision_score", 2, precision_score(y_true, y_pred))
NbRecall == NbMetricCall("recall_score", 3, recall_score(y_true, y_pred))
NbF1 == NbMetricCall("f1_score", IF pc = "nb3" THEN 4 ELSE 2, f1_score(y_true, y_pred))

\* results.append({...})
NbAppend ==
  /\ At("append")
  /\ results' = Append(results, Report(stmt.model, metrics.vals))
  /\ Advance
  /\ UNCHANGED <<y_true, y_score, y_pred, eer_ret, g_used, eer_ret_g, metrics,
                 scaler, X_train_scaled, X_test_scaled, fitted, probs, rf_probs,
                 failure, calls>>

\* the score column the statement passes on: rf_probs, or the score variable
\* assigned last (y_prob_vote)
ScoresOf(st) == IF st.var = "rf_probs" THEN rf_probs ELSE y_score

\* eer, threshold = compute_eer(y_test, rf_probs) / compute_eer(y_test, y_prob_vote)
NbEer ==
  /\ At("compute_eer")
  /\ IF compute_eer(y_true, ScoresOf(stmt)).err = "none"
       THEN /\ eer_ret' = compute_eer(y_true, ScoresOf(stmt))
            /\ Advance
            /\ UNCHANGED failure
       ELSE /\ Raise("compute_eer", stmt.model)
            /\ UNCHANGED <<eer_ret, item>>
  /\ calls' = Append(calls, Call("compute_eer", stmt.model, NoData, "y_test", pc' /= "h_raised"))
  /\ UNCHANGED <<y_true, y_score, y_pred, g_used, eer_ret_g, metrics,
                 scaler, X_train_scaled, X_test_scaled, fitted, probs, results, rf_probs>>

\* ConfusionMatrixDisplay.from_estimator(model, X_test_scaled, y_test)
NbDisplay ==
  /\ At("from_estimator")
  /\ Advance
  /\ calls' = Append(calls, Call("from_estimator", stmt.model, X_test_scaled, "y_test", TRUE))
  /\ UNCHANGED <<y_true, y_score, y_pred, eer_ret, g_used, eer_ret_g, metrics,
                 scaler, X_train_scaled, X_test_scaled, fitted, probs, results, rf_probs,
                 failure>>

NextNotebooks ==
  \/ NbScalerFitTransform \/ NbScalerTransform \/ NbFit \/ NbPredict \/ NbPredictProba
  \/ NbAccuracy \/ NbPrecision \/ NbRecall \/ NbF1 \/ NbAppend \/ NbEer \/ NbDisplay

\* a run of any of the three notebooks, statement by statement
SpecNotebooks == InitNotebooks /\ [][NextNotebooks]_vars

(* ================= data and order of the calls ========================== *)
ScaledTrain == [of |-> "X_train", fit_on |-> "X_train"]
ScaledTest == [of |-> "X_test", fit_on |-> "X_train"]
\* the call receives test features (raw or scaled) or test labels
GetsTestData(c) == c.X.of = "X_test" \/ c.X.fit_on = "X_test" \/ c.y = "y_test"
EvaluationOps == {"predict", "predict_proba", "metric", "compute_eer", "from_estimator"}
\* a call at an earlier position than k, on the same estimator, that returned
ReturnedBefore(op, k) ==
  \E j \in 1..(k - 1) :
    calls[j].op = op /\ calls[j].model = calls[k].model /\ calls[j].ok

\* C23: test data never reaches a training step: every fit call (base models,
\* grid searches, voting and stacking ensembles) receives the scaled train
\* features and the train labels only, the scaler is fitted on the train
\* features only, and the scaled test features and the test labels go only to
\* predict, predict_proba, the metric functions, compute_eer and the display.
C23_TestDataNeverReachesFit ==
  /\ \A k \in 1..Len(calls) :
       /\ calls[k].op = "fit" => (calls[k].X = ScaledTrain /\ calls[k].y = "y_train")
       /\ calls[k].op = "fit_transform" => (calls[k].X = Raw("X_train") /\ calls[k].y = "none")
       /\ GetsTestData(calls[k]) =>
            \/ calls[k].op \in EvaluationOps
            \/ calls[k].op = "transform" /\ calls[k].X = Raw("X_test")
       /\ calls[k].op \in {"predict", "predict_proba", "from_estimator"} =>
            calls[k].X = ScaledTest
  /\ \A m \in DOMAIN fitted :
       fitted[m].n_fits > 0 => (fitted[m].X = ScaledTrain /\ fitted[m].y = "y_train")
  /\ scaler.fit_on /= "X_test"

\* C23 witness: 5.ipynb has run to its end: grid searches, voting and stacking
\* were fitted and the stacking display got the test split
C23_Witness ==
  /\ pc = "nb_done"
  /\ fitted["grid_xgb"].n_fits = 1 /\ fitted["stack"].n_fits = 1
  /\ calls[Len(calls)] = Call("from_estimator", "stack", ScaledTest, "y_test", TRUE)

\* C24: predict, predict_proba, the display and compute_eer are applied to a
\* model only after that model's own fit has returned: the scores passed to
\* compute_eer come from a predict_proba call made after the fit, and rf_probs
\* is taken from the RandomForest instance the loop fitted.
C24_NoUseBeforeOwnFit ==
  /\ \A k \in 1..Len(calls) :
       /\ calls[k].op \in {"predict", "predict_proba", "from_estimator"} =>
            ReturnedBefore("fit", k)
       /\ calls[k].op = "compute_eer" =>
            \E j \in 1..(k - 1) :
              /\ calls[j].op = "predict_proba" /\ calls[j].model = calls[k].model
              /\ calls[j].ok /\ ReturnedBefore("fit", j)
  /\ rf_probs /= <<>> =>
       (fitted["RandomForest"].n_fits = 1 /\ rf_probs = probs["RandomForest"])
  /\ \A m \in DOMAIN probs : probs[m] /= <<>> => fitted[m].n_fits >= 1

\* C24 witness: in 3.ipynb compute_eer has returned for the RandomForest scores
\* taken after the loop
C24_Witness ==
  /\ rf_probs /= <<>> /\ eer_ret.err = "none"
  /\ \E k \in 1..Len(calls) :
       calls[k] = Call("compute_eer", "RandomForest", NoData, "y_test", TRUE)

====
